---- MODULE Spec2Model ----
(***************************************************************************)
(* Model of detector_ransomware_SOLUCION.py: the scan of RUTA_BASE         *)
(* (recorrer_directorio / analizar_fichero / calcular_entropia /           *)
(* extension_sospechosa), the quarantine batch (mover_a_cuarentena), the   *)
(* report (mostrar_informe) and the main sequence that chains them.        *)
(*                                                                         *)
(* Representation:                                                         *)
(*  - a Python str / Path is a sequence of one-character strings;          *)
(*  - an Optional value is <<>> (None) or <<v>>;                           *)
(*  - an entropy (float, bits per byte) is an integer in hundredths of a   *)
(*    bit, so UMBRAL_ENTROPIA = 7.5 is 750;                                *)
(*  - the wall clock is the second within one fixed minute.                *)
(***************************************************************************)
EXTENDS Integers, Sequences, FiniteSets, TLC

\* ------------------------------------------------------------------------
\* Bounds of the model
\* ------------------------------------------------------------------------

\* largest number of files under RUTA_BASE
MaxFicheros == 3

\* last second the clock can reach during the run (it starts at second 0)
MaxReloj == 1

\* ------------------------------------------------------------------------
\* Strings
\* ------------------------------------------------------------------------

Mayusculas ==
  << "A","B","C","D","E","F","G","H","I","J","K","L","M",
     "N","O","P","Q","R","S","T","U","V","W","X","Y","Z" >>

Minusculas ==
  << "a","b","c","d","e","f","g","h","i","j","k","l","m",
     "n","o","p","q","r","s","t","u","v","w","x","y","z" >>

Digitos == << "0","1","2","3","4","5","6","7","8","9" >>

Rango(s) == { s[i] : i \in 1..Len(s) }

\* str.lower() on one character
LowerChar(c) ==
  IF c \in Rango(Mayusculas)
    THEN Minusculas[CHOOSE k \in 1..Len(Mayusculas) : Mayusculas[k] = c]
    ELSE c

\* str.lower()
Lower(s) == [i \in 1..Len(s) |-> LowerChar(s[i])]

\* the regular expression class \w (ASCII part)
EsPalabra(c) == c \in Rango(Mayusculas) \cup Rango(Minusculas) \cup Rango(Digitos) \cup {"_"}

\* str.rfind(c): 0-based index of the last occurrence, -1 when there is none
RFind(s, c) ==
  IF \E i \in 1..Len(s) : s[i] = c
    THEN (CHOOSE i \in 1..Len(s) : s[i] = c /\ \A k \in (i+1)..Len(s) : s[k] # c) - 1
    ELSE -1

\* one decimal digit
Digito(n) == Digitos[n + 1]

RUTA_BASE == << "/","C","o","m","p","a","r","t","i","d","o" >>

RUTA_CUARENTENA ==
  << "/","c","u","a","r","e","n","t","e","n","a","_",
     "r","a","n","s","o","m","w","a","r","e" >>

\* entropy threshold, in hundredths of a bit (7.5)
UMBRAL_ENTROPIA == 750

\* the alternatives of PATRON_EXTENSION_SOSPECHOSA that are literal words
PatronLiterales ==
  { << "l","o","c","k","e","d" >>,
    << "e","n","c","r","y","p","t","e","d" >>,
    << "c","r","y","p","t","o" >>,
    << "e","n","c" >>,
    << "d","e","a","d","b","o","l","t" >> }

\* the prefix of the alternative encrypted_\w+
PatronPrefijo == << "e","n","c","r","y","p","t","e","d","_" >>

\* the suffixes recorrer_directorio skips
SUFIJOS_EXCLUIDOS ==
  { << ".","j","p","g" >>, << ".","j","p","e","g" >>,
    << ".","p","n","g" >>, << ".","g","i","f" >> }

\* ------------------------------------------------------------------------
\* pathlib
\* ------------------------------------------------------------------------

\* carpeta_path / nombre_archivo
Unir(carpeta, nombre) == carpeta \o << "/" >> \o nombre

\* Path.name: what follows the last separator
PathName(ruta) == SubSeq(ruta, RFind(ruta, "/") + 2, Len(ruta))

\* Path.suffix: from the last dot, unless that dot starts or ends the name
PathSuffix(ruta) ==
  LET nombre == PathName(ruta)
      i == RFind(nombre, ".")
  IN  IF 0 < i /\ i < Len(nombre) - 1
        THEN SubSeq(nombre, i + 1, Len(nombre))
        ELSE << >>

\* Path.stem: the name without its suffix
PathStem(ruta) ==
  LET nombre == PathName(ruta)
      i == RFind(nombre, ".")
  IN  IF 0 < i /\ i < Len(nombre) - 1
        THEN SubSeq(nombre, 1, i)
        ELSE nombre

\* ------------------------------------------------------------------------
\* The files under RUTA_BASE
\* ------------------------------------------------------------------------

\* One file: its path, whether open/read succeeds, the number of bytes the
\* bounded read returns, the Shannon entropy of those bytes (hundredths),
\* whether stat succeeds and the size stat reports.
Fichero(carpeta, nombre, legible, longitud, bits, stat_ok, tamano) ==
  [ ruta |-> Unir(carpeta, nombre), legible |-> legible, longitud |-> longitud,
    bits |-> bits, stat_ok |-> stat_ok, tamano |-> tamano ]

DirA == Unir(RUTA_BASE, << "a" >>)
DirB == Unir(RUTA_BASE, << "b" >>)
DirC == Unir(RUTA_BASE, << "c" >>)

N_x_locked == << "x",".","l","o","c","k","e","d" >>
N_photo_jpg == << "p","h","o","t","o",".","j","p","g" >>
N_photo_locked_jpg == << "p","h","o","t","o",".","l","o","c","k","e","d",".","j","p","g" >>
N_archive_jpg_locked ==
  << "a","r","c","h","i","v","e",".","j","p","g",".","l","o","c","k","e","d" >>
N_data_bin == << "d","a","t","a",".","b","i","n" >>
N_P_JPG == << "P",".","J","P","G" >>
N_k_ENCRYPTED_a1 == << "k",".","E","N","C","R","Y","P","T","E","D","_","a","1" >>
N_m_encrypted_ == << "m",".","e","n","c","r","y","p","t","e","d","_" >>
N_dot_enc == << ".","e","n","c" >>

\* The candidate files in the order os.walk yields them; each position lists
\* the conditions the file may be found in.
Catalogo ==
  << { Fichero(DirA, N_x_locked, TRUE, 40, 300, TRUE, 40),
       Fichero(DirA, N_x_locked, FALSE, 0, 0, TRUE, 40) },
     { Fichero(DirA, N_photo_jpg, TRUE, 64, 790, TRUE, 90) },
     { Fichero(DirA, N_photo_locked_jpg, TRUE, 64, 790, TRUE, 90) },
     { Fichero(DirA, N_archive_jpg_locked, TRUE, 64, 790, TRUE, 70),
       Fichero(DirA, N_archive_jpg_locked, TRUE, 64, 300, TRUE, 70) },
     { Fichero(DirA, N_data_bin, FALSE, 0, 0, FALSE, 0),
       Fichero(DirA, N_data_bin, TRUE, 0, 0, TRUE, 0),
       Fichero(DirA, N_data_bin, TRUE, 64, 749, TRUE, 80),
       Fichero(DirA, N_data_bin, TRUE, 64, 750, TRUE, 80) },
     { Fichero(DirA, N_P_JPG, TRUE, 64, 790, TRUE, 90) },
     { Fichero(DirB, N_x_locked, TRUE, 40, 300, TRUE, 50),
       Fichero(DirB, N_x_locked, FALSE, 0, 0, FALSE, 0) },
     { Fichero(DirB, N_k_ENCRYPTED_a1, TRUE, 40, 300, TRUE, 50) },
     { Fichero(DirB, N_m_encrypted_, TRUE, 40, 300, TRUE, 50) },
     { Fichero(DirC, N_x_locked, TRUE, 40, 300, TRUE, 60) },
     { Fichero(DirC, N_dot_enc, TRUE, 40, 300, TRUE, 60) } >>

\* every tree of at most n files taken from positions k.. of the catalogue
RECURSIVE ArbolesDesde(_, _)
ArbolesDesde(k, n) ==
  IF k > Len(Catalogo) \/ n = 0
    THEN { << >> }
    ELSE ArbolesDesde(k + 1, n)
         \cup { << f >> \o resto : f \in Catalogo[k], resto \in ArbolesDesde(k + 1, n - 1) }

Arboles == ArbolesDesde(1, MaxFicheros)

\* the trees tried under a root that cannot be listed
ArbolesInaccesibles == ArbolesDesde(1, 1)

\* what a previous run may have left in the quarantine directory
PREVIO == << "p","r","e","v","i","o" >>

Previos == { << >>, << N_x_locked >> }

VARIABLES
  pc,          \* position of the main sequence
  raiz_ok,     \* RUTA_BASE exists and can be listed
  arbol,       \* the files under RUTA_BASE, in walk order
  idx,         \* recorrer_directorio: next position of the walk
  sospechosos, \* the list recorrer_directorio builds and main keeps
  analizados,  \* the calls of analizar_fichero: file and result
  qroot,       \* RUTA_CUARENTENA: "dir", "ausente" (mkdir works), "bloqueada"
               \* (mkdir fails), "fichero" (a regular file), "sin_permiso" (a
               \* directory whose entries cannot be examined)
  cuarentena,  \* the quarantine directory: file name -> whose content it holds
  reloj,       \* the wall clock, in seconds
  j,           \* mover_a_cuarentena: next position of the batch
  destinos,    \* the list mover_a_cuarentena builds and returns
  movimientos, \* the calls of shutil.move: source, destination, outcome
  errores,     \* the "[!] Error al mover" lines printed
  informe,     \* what mostrar_informe printed
  listado      \* the "Ficheros movidos a cuarentena" lines printed

vars ==
  << pc, raiz_ok, arbol, idx, sospechosos, analizados, qroot, cuarentena,
     reloj, j, destinos, movimientos, errores, informe, listado >>

\* ------------------------------------------------------------------------
\* Detection
\* ------------------------------------------------------------------------

None == << >>

\* calcular_entropia with the failed read answered as an empty read
calcular_entropia_FalloComoVacio(f) ==
  IF ~f.legible \/ f.longitud = 0 THEN << 0 >> ELSE << f.bits >>

\* calcular_entropia: None when the file cannot be opened or read, 0.0 when
\* the read returns no bytes, else the entropy of the bytes read
calcular_entropia(f) ==
  IF ~f.legible THEN None
  ELSE IF f.longitud = 0 THEN << 0 >>
  ELSE << f.bits >>

\* one alternative of the pattern matches the whole of texto
CoincideAlternativa(texto) ==
  \/ Lower(texto) \in PatronLiterales
  \/ /\ Len(texto) > Len(PatronPrefijo)
     /\ Lower(SubSeq(texto, 1, Len(PatronPrefijo))) = PatronPrefijo
     /\ \A k \in (Len(PatronPrefijo) + 1)..Len(texto) : EsPalabra(texto[k])

\* the positions at which $ matches: the end, and before a final newline
FinesDeLinea(nombre) ==
  {Len(nombre)} \cup (IF Len(nombre) > 0 /\ nombre[Len(nombre)] = "\n"
                        THEN {Len(nombre) - 1} ELSE {})

\* extension_sospechosa: PATRON_EXTENSION_SOSPECHOSA.search(ruta.name)
extension_sospechosa(ruta) ==
  LET nombre == PathName(ruta)
  IN  \E i \in 1..Len(nombre) : \E fin \in FinesDeLinea(nombre) :
        /\ nombre[i] = "."
        /\ i < fin
        /\ CoincideAlternativa(SubSeq(nombre, i + 1, fin))

\* motivos with the entropy test skipped once the extension matched
Motivos_Cortocircuito(ruta, entropia) ==
  IF extension_sospechosa(ruta) THEN << "extension" >>
  ELSE IF entropia # None /\ entropia[1] >= UMBRAL_ENTROPIA THEN << "entropia" >>
  ELSE << >>

\* the list motivos of analizar_fichero
Motivos(ruta, entropia) ==
  (IF extension_sospechosa(ruta) THEN << "extension" >> ELSE << >>)
  \o (IF entropia # None /\ entropia[1] >= UMBRAL_ENTROPIA
        THEN << "entropia" >> ELSE << >>)

\* analizar_fichero: None, or the dictionary of the suspicious file
analizar_fichero(f) ==
  LET entropia == calcular_entropia(f)
      motivos == Motivos(f.ruta, entropia)
  IN  IF motivos = << >>
        THEN None
        ELSE << [ ruta |-> f.ruta,
                  tamano |-> IF f.stat_ok THEN f.tamano ELSE -1,
                  entropia |-> entropia,
                  motivos |-> motivos ] >>

\* the skip test done on any occurrence of an excluded suffix in the name
Excluido_Subcadena(ruta) ==
  LET nombre == Lower(PathName(ruta))
  IN  \E suf \in SUFIJOS_EXCLUIDOS : \E i \in 1..Len(nombre) :
        i + Len(suf) - 1 <= Len(nombre) /\ SubSeq(nombre, i, i + Len(suf) - 1) = suf

\* the test of recorrer_directorio that skips a file
Excluido(ruta) == Lower(PathSuffix(ruta)) \in SUFIJOS_EXCLUIDOS

\* os.walk(RUTA_BASE): with no onerror handler a root that cannot be listed
\* yields nothing
OsWalk == IF raiz_ok THEN arbol ELSE << >>

\* ------------------------------------------------------------------------
\* Quarantine
\* ------------------------------------------------------------------------

\* the minute the run takes place in, as %Y%m%d%H%M
FechaMinuto == << "2","0","2","6","1","1","0","5","2","2","1","3" >>

\* datetime.now().strftime("%Y%m%d%H%M%S") at second t
Strftime(t) == FechaMinuto \o << Digito(t \div 10), Digito(t % 10) >>

\* Path.exists() of a path inside RUTA_CUARENTENA
Existe(ruta) == qroot = "dir" /\ ruta \in DOMAIN cuarentena

\* RUTA_CUARENTENA / origen.name
DestinoInicial(origen) == Unir(RUTA_CUARENTENA, PathName(origen))

\* RUTA_CUARENTENA / f"{destino.stem}_{timestamp}{destino.suffix}"
DestinoConSello(destino, t) ==
  Unir(RUTA_CUARENTENA,
       PathStem(destino) \o << "_" >> \o Strftime(t) \o PathSuffix(destino))

\* the destination mover_a_cuarentena hands to shutil.move
Destino(origen, t) ==
  IF Existe(DestinoInicial(origen))
    THEN DestinoConSello(DestinoInicial(origen), t)
    ELSE DestinoInicial(origen)

\* the loop left at the first failed move
SiguienteIndice_Corta(k, ok) == IF ok THEN k + 1 ELSE Len(sospechosos) + 1

\* the for loop goes on to the next element whatever the move did
SiguienteIndice(k, ok) == k + 1

\* ------------------------------------------------------------------------
\* Report
\* ------------------------------------------------------------------------

\* f"{x:.2f}" of an entropy
Formato2f(v) ==
  << Digito(v \div 100), ".", Digito((v \div 10) % 10), Digito(v % 10) >>

\* ",".join(motivos)
RECURSIVE Join(_)
Join(lista) ==
  IF Len(lista) = 0 THEN << >>
  ELSE IF Len(lista) = 1 THEN << lista[1] >>
  ELSE << lista[1], "," >> \o Join(Tail(lista))

\* one row of the table
Fila(info) ==
  [ tam |-> info.tamano,
    ent |-> IF info.entropia # None THEN Formato2f(info.entropia[1])
            ELSE << "N","/","A" >>,
    motivos |-> Join(info.motivos),
    ruta |-> info.ruta ]

\* the report given only the findings whose move succeeded
ArgumentoInforme_SoloMovidos ==
  LET Movido(info) ==
        \E k \in 1..Len(movimientos) :
          movimientos[k].origen = info.ruta /\ movimientos[k].ok
  IN  SelectSeq(sospechosos, Movido)

\* the list main hands to mostrar_informe
ArgumentoInforme == sospechosos

\* ------------------------------------------------------------------------
\* The main sequence
\* ------------------------------------------------------------------------

SinInforme == [ impreso |-> FALSE, tipo |-> "ninguno", filas |-> << >>, total |-> 0 ]

Init ==
  /\ pc = "recorrer"
  /\ raiz_ok \in BOOLEAN
  /\ arbol \in (IF raiz_ok THEN Arboles ELSE ArbolesInaccesibles)
  /\ idx = 1
  /\ sospechosos = << >>
  /\ analizados = << >>
  /\ qroot \in { "dir", "ausente", "bloqueada", "fichero", "sin_permiso" }
  /\ \E previos \in Previos :
       /\ (qroot # "dir" => previos = << >>)
       /\ cuarentena = [ p \in { Unir(RUTA_CUARENTENA, previos[k]) : k \in 1..Len(previos) }
                         |-> PREVIO ]
  /\ reloj = 0
  /\ j = 1
  /\ destinos = << >>
  /\ movimientos = << >>
  /\ errores = << >>
  /\ informe = SinInforme
  /\ listado = << >>

\* one iteration of the loop of recorrer_directorio
VisitarFichero ==
  /\ pc = "recorrer"
  /\ idx <= Len(OsWalk)
  /\ LET f == OsWalk[idx]
     IN  IF Excluido(f.ruta)
           THEN UNCHANGED << sospechosos, analizados >>
           ELSE LET info == analizar_fichero(f)
                IN  /\ sospechosos' = sospechosos \o info
                    /\ analizados' = Append(analizados, [ fichero |-> f, info |-> info ])
  /\ idx' = idx + 1
  /\ UNCHANGED << pc, raiz_ok, arbol, qroot, cuarentena, reloj, j, destinos,
                  movimientos, errores, informe, listado >>

\* recorrer_directorio returns; main calls mover_a_cuarentena
FinRecorrer ==
  /\ pc = "recorrer"
  /\ idx > Len(OsWalk)
  /\ pc' = "mkdir"
  /\ UNCHANGED << raiz_ok, arbol, idx, sospechosos, analizados, qroot, cuarentena,
                  reloj, j, destinos, movimientos, errores, informe, listado >>

\* the first statement of mover_a_cuarentena: create RUTA_CUARENTENA when it
\* does not exist; the OSError of a failed mkdir is caught nowhere
CrearCuarentena ==
  /\ pc = "mkdir"
  /\ qroot' = IF qroot = "ausente" THEN "dir" ELSE qroot
  /\ pc' = IF qroot = "bloqueada" THEN "excepcion" ELSE "mover"
  /\ j' = 1
  /\ destinos' = << >>
  /\ UNCHANGED << raiz_ok, arbol, idx, sospechosos, analizados, cuarentena, reloj,
                  movimientos, errores, informe, listado >>

\* one iteration of the loop of mover_a_cuarentena
MoverUno ==
  /\ pc = "mover"
  /\ j <= Len(sospechosos)
  /\ \E t \in reloj..MaxReloj : \E ok \in BOOLEAN :
       LET origen == sospechosos[j].ruta
           destino == Destino(origen, t)
       IN  /\ (~Existe(DestinoInicial(origen)) => t = reloj)
           /\ (qroot # "dir" => ~ok)
           /\ reloj' = t
           /\ movimientos' = Append(movimientos,
                [ origen |-> origen, destino |-> destino, ok |-> ok,
                  existia |-> Existe(destino) ])
           /\ IF ok
                THEN /\ cuarentena' = [ p \in DOMAIN cuarentena \cup {destino} |->
                                          IF p = destino THEN origen ELSE cuarentena[p] ]
                     /\ destinos' = Append(destinos, destino)
                     /\ UNCHANGED errores
                ELSE /\ errores' = Append(errores, origen)
                     /\ UNCHANGED << cuarentena, destinos >>
           /\ j' = SiguienteIndice(j, ok)
  /\ UNCHANGED << pc, raiz_ok, arbol, idx, sospechosos, analizados, qroot,
                  informe, listado >>

\* destino.exists() on a directory that cannot be examined: a pathlib that
\* re-raises PermissionError ends mover_a_cuarentena there, outside the try
\* (one that answers False goes on to a move that fails, as in MoverUno)
ExisteLanza ==
  /\ pc = "mover"
  /\ j <= Len(sospechosos)
  /\ qroot = "sin_permiso"
  /\ pc' = "excepcion"
  /\ UNCHANGED << raiz_ok, arbol, idx, sospechosos, analizados, qroot, cuarentena,
                  reloj, j, destinos, movimientos, errores, informe, listado >>

\* mover_a_cuarentena returns destinos
FinMover ==
  /\ pc = "mover"
  /\ j > Len(sospechosos)
  /\ pc' = "informe"
  /\ UNCHANGED << raiz_ok, arbol, idx, sospechosos, analizados, qroot, cuarentena,
                  reloj, j, destinos, movimientos, errores, informe, listado >>

\* mostrar_informe(sospechosos, inicio, fin)
MostrarInforme ==
  /\ pc = "informe"
  /\ LET lista == ArgumentoInforme
     IN  informe' = IF lista = << >>
                      THEN [ impreso |-> TRUE, tipo |-> "sin_sospechosos",
                             filas |-> << >>, total |-> 0 ]
                      ELSE [ impreso |-> TRUE, tipo |-> "tabla",
                             filas |-> [ k \in 1..Len(lista) |-> Fila(lista[k]) ],
                             total |-> Len(lista) ]
  /\ pc' = "destinos"
  /\ UNCHANGED << raiz_ok, arbol, idx, sospechosos, analizados, qroot, cuarentena,
                  reloj, j, destinos, movimientos, errores, listado >>

\* the end of main: the list of destinations, when there is one
ImprimirDestinos ==
  /\ pc = "destinos"
  /\ listado' = destinos
  /\ pc' = "fin"
  /\ UNCHANGED << raiz_ok, arbol, idx, sospechosos, analizados, qroot, cuarentena,
                  reloj, j, destinos, movimientos, errores, informe >>

Next ==
  \/ VisitarFichero
  \/ FinRecorrer
  \/ CrearCuarentena
  \/ MoverUno
  \/ ExisteLanza
  \/ FinMover
  \/ MostrarInforme
  \/ ImprimirDestinos

Spec == Init /\ [][Next]_vars

\* ------------------------------------------------------------------------
\* Properties
\* ------------------------------------------------------------------------

\* mover_a_cuarentena has returned
TrasMover == pc \in { "informe", "destinos", "fin" }

\* recorrer_directorio has returned
TrasRecorrer == pc # "recorrer"

\* recorrer_directorio is running or has just returned its list to main
EnRecorrer == pc \in { "recorrer", "mkdir" }

\* C1: when mover_a_cuarentena returns, the returned sequence has exactly one
\* entry per input finding, a failed move included.
C1_UnaEntradaPorHallazgo ==
  TrasMover => Len(destinos) = Len(sospechosos)

\* C2: two findings of one batch with the same basename in different
\* directories, both moved with success, get two different destinations, and
\* after the batch each destination holds the content of its own source.
C2_MismoNombreSinPisar ==
  TrasMover =>
    \A a \in 1..Len(movimientos) : \A b \in (a + 1)..Len(movimientos) :
      ( /\ movimientos[a].ok /\ movimientos[b].ok
        /\ movimientos[a].origen # movimientos[b].origen
        /\ PathName(movimientos[a].origen) = PathName(movimientos[b].origen) )
      => /\ movimientos[a].destino # movimientos[b].destino
         /\ movimientos[a].destino \in DOMAIN cuarentena
         /\ movimientos[b].destino \in DOMAIN cuarentena
         /\ cuarentena[movimientos[a].destino] = movimientos[a].origen
         /\ cuarentena[movimientos[b].destino] = movimientos[b].origen

\* C3: when the scan root cannot be traversed, the run does not print the
\* report of a scan that found nothing.
C3_RaizInaccesibleNoEsVacio ==
  (~raiz_ok /\ informe.impreso) => informe.tipo # "sin_sospechosos"

\* C4: the main sequence never ends in an exception that escapes before
\* mostrar_informe has printed the findings of the scan.
C4_SiempreHayInforme ==
  pc = "excepcion" => informe.impreso

\* C5: every finding of the batch is handed to the move, in input order,
\* whatever the earlier moves did, and the returned sequence is the
\* destinations of the moves that succeeded, in input order.
C5_FalloNoDetieneElLote ==
  LET Ok(m) == m.ok
      logrados == SelectSeq(movimientos, Ok)
  IN  /\ Len(movimientos) <= Len(sospechosos)
      /\ \A k \in 1..Len(movimientos) : movimientos[k].origen = sospechosos[k].ruta
      /\ TrasMover => Len(movimientos) = Len(sospechosos)
      /\ pc \in { "mover", "informe", "destinos", "fin" } =>
           destinos = [ k \in 1..Len(logrados) |-> logrados[k].destino ]

\* a failed move followed, in the same batch, by a move that succeeded
C5_Testigo ==
  /\ pc = "fin"
  /\ \E a \in 1..Len(movimientos) : \E b \in (a + 1)..Len(movimientos) :
       ~movimientos[a].ok /\ movimientos[b].ok

\* the reasons a file deserves: extension when its name matches the pattern,
\* entropy when the read gave a value at or above the threshold
C6_Esperados(f) ==
  (IF extension_sospechosa(f.ruta) THEN { "extension" } ELSE {})
  \cup (IF f.legible /\ (IF f.longitud = 0 THEN 0 ELSE f.bits) >= UMBRAL_ENTROPIA
          THEN { "entropia" } ELSE {})

\* C6: during the scan and at its return, every call of analizar_fichero
\* has returned a finding exactly when the union of the two reasons is not
\* empty, and the finding carries exactly that union; an unreadable file
\* never gets the entropy reason.
C6_MotivosSonLaUnion ==
  EnRecorrer => \A k \in 1..Len(analizados) :
    LET f == analizados[k].fichero
        r == analizados[k].info
    IN  /\ (r = None) <=> (C6_Esperados(f) = {})
        /\ r # None =>
             /\ Rango(r[1].motivos) = C6_Esperados(f)
             /\ Len(r[1].motivos) = Cardinality(C6_Esperados(f))
             /\ r[1].motivos # << >>
             /\ (~f.legible => "entropia" \notin Rango(r[1].motivos))

\* a file flagged for both reasons, one for entropy alone, and one not
\* flagged
C6_Testigo ==
  /\ \E k \in 1..Len(analizados) :
       analizados[k].info # None
       /\ Rango(analizados[k].info[1].motivos) = { "extension", "entropia" }
  /\ \E k \in 1..Len(analizados) :
       analizados[k].info # None
       /\ Rango(analizados[k].info[1].motivos) = { "entropia" }
  /\ \E k \in 1..Len(analizados) : analizados[k].info = None

\* the findings about the file at ruta
C7_Hallazgos(ruta) ==
  { k \in 1..Len(sospechosos) : sospechosos[k].ruta = ruta }

\* C7: a file of the walk that cannot be read is flagged exactly when its
\* name matches the pattern, with the extension as only reason and the
\* entropy absent (an empty read gives 0.0 instead); the scan visits every
\* file that follows it.
C7_IlegibleNoDetiene ==
  /\ EnRecorrer => \A k \in 1..(idx - 1) :
       LET f == OsWalk[k]
       IN  /\ ~f.legible =>
                /\ (C7_Hallazgos(f.ruta) # {}) <=> extension_sospechosa(f.ruta)
                /\ \A h \in C7_Hallazgos(f.ruta) :
                     /\ sospechosos[h].entropia = None
                     /\ sospechosos[h].motivos = << "extension" >>
           /\ (f.legible /\ f.longitud = 0) =>
                \A h \in C7_Hallazgos(f.ruta) : sospechosos[h].entropia = << 0 >>
  /\ TrasRecorrer => idx = Len(OsWalk) + 1
  /\ pc = "mkdir" =>
       \A k \in 1..Len(OsWalk) :
         Excluido(OsWalk[k].ruta)
         \/ \E a \in 1..Len(analizados) : analizados[a].fichero = OsWalk[k]

\* an unreadable file flagged by its extension, an unreadable file not
\* flagged, and a file analysed after an unreadable one
C7_Testigo ==
  /\ pc = "mkdir"
  /\ \E a \in 1..Len(analizados) : \E b \in (a + 1)..Len(analizados) :
       /\ ~analizados[a].fichero.legible
       /\ analizados[a].info # None
       /\ analizados[b].fichero.legible
       /\ analizados[b].info # None
  /\ \E a \in 1..Len(analizados) :
       ~analizados[a].fichero.legible /\ analizados[a].info = None

\* the findings the calls of analizar_fichero returned, in call order
RECURSIVE C8_Producidos(_)
C8_Producidos(registro) ==
  IF registro = << >> THEN << >>
  ELSE registro[1].info \o C8_Producidos(Tail(registro))

\* C8: from the return of the scan on, the list of findings is the one the
\* scan produced, field by field, whatever the moves do; the moves are asked
\* for those findings, and the report prints one row per finding of that
\* list, in order.
C8_InformeEsElEscaneo ==
  LET producidos == C8_Producidos(analizados)
  IN  /\ TrasRecorrer => sospechosos = producidos
      /\ \A k \in 1..Len(movimientos) : movimientos[k].origen = producidos[k].ruta
      /\ informe.impreso =>
           /\ informe.total = Len(producidos)
           /\ informe.filas = [ k \in 1..Len(producidos) |-> Fila(producidos[k]) ]
           /\ (informe.tipo = "sin_sospechosos") <=> (producidos = << >>)

\* a table printed after a batch with a failed move and a successful one
C8_Testigo ==
  /\ informe.impreso
  /\ informe.tipo = "tabla"
  /\ \E a \in 1..Len(movimientos) : ~movimientos[a].ok
  /\ \E a \in 1..Len(movimientos) : movimientos[a].ok

\* the final extension of a file name, lower-cased: what follows the last
\* dot, dot included, when that dot is neither the first nor the last
\* character
C9_ExtensionFinal(nombre) ==
  LET puntos == { i \in 2..(Len(nombre) - 1) :
                    nombre[i] = "." /\ \A k \in (i + 1)..Len(nombre) : nombre[k] # "." }
  IN  IF puntos = {} \/ nombre[Len(nombre)] = "."
        THEN << >>
        ELSE LET i == CHOOSE i \in puntos : TRUE
             IN  [ k \in 1..(Len(nombre) - i + 1) |-> LowerChar(nombre[i + k - 1]) ]

\* the files of a walk that the scan must report
C9_Debidos(camino) ==
  LET Debido(f) ==
        /\ C9_ExtensionFinal(PathName(f.ruta)) \notin SUFIJOS_EXCLUIDOS
        /\ analizar_fichero(f) # None
      elegidos == SelectSeq(camino, Debido)
  IN  [ k \in 1..Len(elegidos) |-> analizar_fichero(elegidos[k])[1] ]

\* C9: the list recorrer_directorio builds is, at every step, the findings of
\* the visited files whose final extension is not excluded, each once and in
\* visit order; archive.jpg.locked is classified and flagged by extension,
\* photo.jpg and photo.locked.jpg are skipped without being classified.
C9_RecorridoExacto ==
  EnRecorrer =>
  /\ sospechosos = C9_Debidos(SubSeq(OsWalk, 1, idx - 1))
  /\ \A a \in 1..Len(sospechosos) : \A b \in 1..Len(sospechosos) :
       sospechosos[a].ruta = sospechosos[b].ruta => a = b
  /\ \A k \in 1..(idx - 1) :
       LET f == OsWalk[k]
       IN  /\ PathName(f.ruta) = N_archive_jpg_locked =>
                /\ \E a \in 1..Len(analizados) : analizados[a].fichero = f
                /\ \E h \in 1..Len(sospechosos) :
                     /\ sospechosos[h].ruta = f.ruta
                     /\ "extension" \in Rango(sospechosos[h].motivos)
           /\ PathName(f.ruta) \in { N_photo_jpg, N_photo_locked_jpg } =>
                /\ \A a \in 1..Len(analizados) : analizados[a].fichero # f
                /\ \A h \in 1..Len(sospechosos) : sospechosos[h].ruta # f.ruta

\* a finished scan of archive.jpg.locked, photo.jpg and photo.locked.jpg
C9_Testigo ==
  /\ pc = "mkdir"
  /\ \E a \in 1..Len(OsWalk) : PathName(OsWalk[a].ruta) = N_archive_jpg_locked
  /\ \E a \in 1..Len(OsWalk) : PathName(OsWalk[a].ruta) = N_photo_jpg
  /\ \E a \in 1..Len(OsWalk) : PathName(OsWalk[a].ruta) = N_photo_locked_jpg
  /\ Len(sospechosos) = 1

\* C10: the destination handed to shutil.move never names a file that is in
\* the quarantine directory at that moment.
C10_DestinoNuncaExiste ==
  \A k \in 1..Len(movimientos) : ~movimientos[k].existia

====
